---- MODULE Spec2Model ----
(***************************************************************************)
(* wxdash: the zip code -> location -> nearest station -> latest           *)
(* observation pipeline of main.go.                                        *)
(*                                                                         *)
(* A generic JSON value (Go's interface{} after json.Decode) is a tagged   *)
(* record [t, v]:                                                          *)
(*   "null" Go nil (JSON null, and getJSONData's failure return),          *)
(*   "str"  string, "num" float64, "bool" bool,                            *)
(*   "arr"  []interface{} (v a sequence),                                  *)
(*   "obj"  map[string]interface{} (v a function from its keys).           *)
(* A type assertion x.(T) on a value of another dynamic type panics; an    *)
(* extractor therefore yields [panic, val].  Go ranges over a map in       *)
(* random order, but every loop below only acts on keys matched by name,   *)
(* so the result does not depend on the order.                             *)
(*                                                                         *)
(* Strings the code only copies (city, state, zip) are TLA+ strings.  The  *)
(* station URL, which the code measures and slices, is a sequence of code  *)
(* points in the JSON text and a sequence of UTF-8 bytes as a Go string.   *)
(* Numbers (float64 that the code only copies) are integers.               *)
(***************************************************************************)
EXTENDS Integers, Sequences, FiniteSets, TLC

VARIABLES
    pc,              \* per handler goroutine: where the lookup stands
    zip,             \* the zipCode form value of the request being handled
    prevZip,         \* the zipCode of the request handled before it
    served,          \* requests the goroutine has taken so far
    calls,           \* upstream GETs the current lookup has issued, in order
    resps,           \* what http.Get/Decode produced for each of them
    loc,             \* getObservationForZip's local loc
    nearestStation,  \* getObservationForZip's local nearestStation
    result,          \* the LookupData handed to the template
    call,            \* one extractor invoked on its own: name and inputs
    ret              \* what that invocation produced

vars == <<pc, zip, prevZip, served, calls, resps, loc, nearestStation, result, call, ret>>

lookupVars == <<pc, zip, prevZip, served, calls, resps, loc, nearestStation, result>>

---------------------------------------------------------------------------
(* Bounds *)

\* handler goroutines running at once
NumLookups == 2

\* requests each goroutine takes
MaxRequests == 2

\* longest station URL, in code points
MaxUrlLen == 5

---------------------------------------------------------------------------
(* JSON values *)

JNull == [t |-> "null", v |-> 0]

JStr(s) == [t |-> "str", v |-> s]

JNum(n) == [t |-> "num", v |-> n]

JBool(b) == [t |-> "bool", v |-> b]

JArr(a) == [t |-> "arr", v |-> a]

JObj(o) == [t |-> "obj", v |-> o]

\* the object with no keys
EmptyObj == JObj([k \in {} |-> JNull])

\* marks a key left out when an object is built from a choice per key
Absent == [t |-> "absent", v |-> 0]

\* the object holding exactly the keys of c that are not Absent
ObjOf(c) == JObj([k \in {k \in DOMAIN c : c[k] # Absent} |-> c[k]])

Has(j, k) == k \in DOMAIN j.v

---------------------------------------------------------------------------
(* What http.Get and json.Decode can produce for one URL *)

NetErr == [kind |-> "neterr", body |-> JNull]

BadJSON == [kind |-> "badjson", body |-> JNull]

Body(j) == [kind |-> "json", body |-> j]

\* main.go 118-136: nil on a transport or decode error, else the decoded
\* value (the status code is not looked at; a body of null decodes to nil)
getJSONData(r) == IF r.kind = "json" THEN r.body ELSE JNull

---------------------------------------------------------------------------
(* Results of an extractor *)

Panic == [panic |-> TRUE, val |-> 0]

Ok(x) == [panic |-> FALSE, val |-> x]

\* m[k].(T) for a key the loop has matched: the value, or a panic
TypeAssert(m, k, type) == IF m[k].t = type THEN Ok(m[k].v) ELSE Panic

\* a struct field set from key k only if the range meets k
Field(m, k, type, zero) == IF k \in DOMAIN m THEN TypeAssert(m, k, type) ELSE Ok(zero)

---------------------------------------------------------------------------
(* Geocoder *)

ZeroLocation == [City |-> "", State |-> "", Zip |-> "", Latitude |-> 0, Longitude |-> 0]

LocKeys == {"city", "zip", "longitude", "state", "latitude"}

LocType(k) == IF k \in {"longitude", "latitude"} THEN "num" ELSE "str"

\* the switch with the two coordinate cases exchanged
LocationOfFieldsSwapped(m) ==
    IF \E k \in LocKeys \cap DOMAIN m : m[k].t # LocType(k)
    THEN Panic
    ELSE Ok([City      |-> Field(m, "city", "str", "").val,
             State     |-> Field(m, "state", "str", "").val,
             Zip       |-> Field(m, "zip", "str", "").val,
             Latitude  |-> Field(m, "longitude", "num", 0).val,
             Longitude |-> Field(m, "latitude", "num", 0).val])

\* main.go 94-106: the switch over the keys of "fields"
LocationOfFields(m) ==
    IF \E k \in LocKeys \cap DOMAIN m : m[k].t # LocType(k)
    THEN Panic
    ELSE Ok([City      |-> Field(m, "city", "str", "").val,
             State     |-> Field(m, "state", "str", "").val,
             Zip       |-> Field(m, "zip", "str", "").val,
             Latitude  |-> Field(m, "latitude", "num", 0).val,
             Longitude |-> Field(m, "longitude", "num", 0).val])

\* element 0 taken only when there is one
LocationOfRecordsChecked(recs) ==
    IF Len(recs) = 0 THEN Ok(ZeroLocation)
    ELSE IF recs[1].t # "obj" THEN Panic
    ELSE IF ~Has(recs[1], "fields") THEN Ok(ZeroLocation)
    ELSE IF recs[1].v["fields"].t # "obj" THEN Panic
    ELSE LocationOfFields(recs[1].v["fields"].v)

\* main.go 90-93: element 0 of records, then its "fields"
LocationOfRecords(recs) ==
    IF Len(recs) = 0 THEN Panic              \* index out of range
    ELSE IF recs[1].t # "obj" THEN Panic
    ELSE IF ~Has(recs[1], "fields") THEN Ok(ZeroLocation)
    ELSE IF recs[1].v["fields"].t # "obj" THEN Panic
    ELSE LocationOfFields(recs[1].v["fields"].v)

\* main.go 72-115, given what the geocoding GET produced
latLonForZip(r) ==
    LET jsonData == getJSONData(r) IN
    IF jsonData.t # "obj" THEN Panic
    ELSE IF ~Has(jsonData, "records") THEN Ok(ZeroLocation)
    ELSE IF jsonData.v["records"].t # "arr" THEN Panic
    ELSE LocationOfRecords(jsonData.v["records"].v)

---------------------------------------------------------------------------
(* Station Resolver *)

\* a code point below U+0800 as UTF-8
Utf8(cp) == IF cp < 128 THEN <<cp>> ELSE <<192 + (cp \div 64), 128 + (cp % 64)>>

RECURSIVE GoString(_)
\* the bytes of the Go string json.Decode makes of a JSON string
GoString(s) == IF s = <<>> THEN <<>> ELSE Utf8(Head(s)) \o GoString(Tail(s))

\* the slice with its lower bound clamped at 0
TrailingFourClamped(stationID) ==
    IF Len(stationID) - 4 < 0 THEN Ok(stationID)
    ELSE Ok(SubSeq(stationID, Len(stationID) - 4 + 1, Len(stationID)))

\* main.go 152: stationID[len(stationID)-4:], byte-indexed
TrailingFour(stationID) ==
    IF Len(stationID) - 4 < 0 THEN Panic     \* slice bounds out of range
    ELSE Ok(SubSeq(stationID, Len(stationID) - 4 + 1, Len(stationID)))

\* index 0 taken without the range, as latLonForZip takes records[0]
StationOfListUnchecked(typedStations) ==
    IF Len(typedStations) = 0 THEN Panic
    ELSE IF typedStations[1].t # "str" THEN Panic
    ELSE TrailingFour(GoString(typedStations[1].v))

\* main.go 148-155: only index 0 of the stations is acted on
StationOfList(typedStations) ==
    IF Len(typedStations) = 0 THEN Ok(<<>>)
    ELSE IF typedStations[1].t # "str" THEN Panic
    ELSE TrailingFour(GoString(typedStations[1].v))

\* main.go 138-160, given what the stations GET produced
findNearestStation(r) ==
    LET jsonData == getJSONData(r) IN
    IF jsonData.t # "obj" THEN Panic
    ELSE IF ~Has(jsonData, "observationStations") THEN Ok(<<>>)
    ELSE IF jsonData.v["observationStations"].t # "arr" THEN Panic
    ELSE StationOfList(jsonData.v["observationStations"].v)

---------------------------------------------------------------------------
(* Observation Fetcher *)

\* value read with the two-result assertion, which never panics
TemperatureOfCommaOk(typedProps) ==
    IF "temperature" \notin DOMAIN typedProps THEN Ok(0)
    ELSE IF typedProps["temperature"].t # "obj" THEN Panic
    ELSE IF "value" \notin DOMAIN typedProps["temperature"].v THEN Ok(0)
    ELSE IF typedProps["temperature"].v["value"].t # "num" THEN Ok(0)
    ELSE Ok(typedProps["temperature"].v["value"].v)

\* main.go 192-200
TemperatureOf(typedProps) ==
    IF "temperature" \notin DOMAIN typedProps THEN Ok(0)
    ELSE IF typedProps["temperature"].t # "obj" THEN Panic
    ELSE Field(typedProps["temperature"].v, "value", "num", 0)

HasTemperatureValue(j) ==
    /\ Has(j, "properties")
    /\ Has(j.v["properties"], "temperature")
    /\ Has(j.v["properties"].v["temperature"], "value")

\* the observation declared without its station, set only with a temperature
getLatestObservationFresh(station, r) ==
    LET jsonData == getJSONData(r)
        temp == IF jsonData.t # "obj" THEN Panic
                ELSE IF ~Has(jsonData, "properties") THEN Ok(0)
                ELSE IF jsonData.v["properties"].t # "obj" THEN Panic
                ELSE TemperatureOf(jsonData.v["properties"].v)
    IN IF temp.panic THEN Panic
       ELSE Ok([Station |-> IF HasTemperatureValue(jsonData) THEN station ELSE <<>>,
                Temperature |-> temp.val])

\* main.go 182-206, given the station and what the observation GET produced
getLatestObservation(station, r) ==
    LET jsonData == getJSONData(r)
        temp == IF jsonData.t # "obj" THEN Panic
                ELSE IF ~Has(jsonData, "properties") THEN Ok(0)
                ELSE IF jsonData.v["properties"].t # "obj" THEN Panic
                ELSE TemperatureOf(jsonData.v["properties"].v)
    IN IF temp.panic THEN Panic
       ELSE Ok([Station |-> station, Temperature |-> temp.val])

---------------------------------------------------------------------------
(* Orchestrator, as one function of the three upstream results *)

\* main.go 172-178
LookupData(l, o) ==
    [City |-> l.City, State |-> l.State, ZipCode |-> l.Zip,
     Temperature |-> o.Temperature, Station |-> o.Station]

\* main.go 162-180
getObservationForZip(g, s, o) ==
    LET l == latLonForZip(g) IN
    IF l.panic THEN Panic
    ELSE LET n == findNearestStation(s) IN
         IF n.panic THEN Panic
         ELSE LET obs == getLatestObservation(n.val, o) IN
              IF obs.panic THEN Panic
              ELSE Ok(LookupData(l.val, obs.val))

---------------------------------------------------------------------------
(* The lookup handler, one goroutine per request in flight *)

Procs == 1 .. NumLookups

\* zipCode form values; "" is what Form.Get gives for a missing field
Zips == {"20500", "99501", ""}

NoZip == "none"

ZeroLookupData == LookupData(ZeroLocation, [Station |-> <<>>, Temperature |-> 0])

\* main.go 75: the geocoding URL carries the zip
GeocodeCall(z) == [api |-> "geocode", args |-> <<z>>]

\* main.go 143: the stations URL carries the coordinates
StationsCall(lat, lon) == [api |-> "stations", args |-> <<lat, lon>>]

\* main.go 186: the observation URL carries the station identifier
ObservationCall(station) == [api |-> "observation", args |-> <<station>>]

InitLookups ==
    /\ pc = [i \in Procs |-> "idle"]
    /\ zip = [i \in Procs |-> NoZip]
    /\ prevZip = [i \in Procs |-> NoZip]
    /\ served = [i \in Procs |-> 0]
    /\ calls = [i \in Procs |-> <<>>]
    /\ resps = [i \in Procs |-> <<>>]
    /\ loc = [i \in Procs |-> ZeroLocation]
    /\ nearestStation = [i \in Procs |-> <<>>]
    /\ result = [i \in Procs |-> ZeroLookupData]

\* main.go 49-62, 165, 75-80: a request arrives, the handler reads zipCode
\* and getObservationForZip -> latLonForZip issues the geocoding GET (the
\* "lookup" template is taken to parse; rendering is not modelled)
NewRequest(i, z) ==
    /\ pc[i] \in {"idle", "done", "panic"}
    /\ served[i] < MaxRequests
    /\ pc' = [pc EXCEPT ![i] = "geocode"]
    /\ zip' = [zip EXCEPT ![i] = z]
    /\ prevZip' = [prevZip EXCEPT ![i] = zip[i]]
    /\ served' = [served EXCEPT ![i] = @ + 1]
    /\ calls' = [calls EXCEPT ![i] = <<GeocodeCall(z)>>]
    /\ resps' = [resps EXCEPT ![i] = <<>>]
    /\ loc' = [loc EXCEPT ![i] = ZeroLocation]
    /\ nearestStation' = [nearestStation EXCEPT ![i] = <<>>]
    /\ result' = [result EXCEPT ![i] = ZeroLookupData]
    /\ UNCHANGED <<call, ret>>

\* the lookup given up when the location came back all zero
GeocodeReturnsShortCircuit(i, r) ==
    /\ pc[i] = "geocode"
    /\ resps' = [resps EXCEPT ![i] = Append(@, r)]
    /\ LET l == latLonForZip(r) IN
       IF l.panic
       THEN /\ pc' = [pc EXCEPT ![i] = "panic"]
            /\ UNCHANGED <<loc, calls>>
       ELSE IF l.val = ZeroLocation
       THEN /\ pc' = [pc EXCEPT ![i] = "done"]
            /\ UNCHANGED <<loc, calls>>
       ELSE /\ pc' = [pc EXCEPT ![i] = "stations"]
            /\ loc' = [loc EXCEPT ![i] = l.val]
            /\ calls' = [calls EXCEPT ![i] =
                             Append(@, StationsCall(l.val.Latitude, l.val.Longitude))]
    /\ UNCHANGED <<zip, prevZip, served, nearestStation, result, call, ret>>

\* main.go 80-114, 165-168, 143-144: the geocoding GET returns, latLonForZip
\* extracts loc, findNearestStation issues the stations GET
GeocodeReturns(i, r) ==
    /\ pc[i] = "geocode"
    /\ resps' = [resps EXCEPT ![i] = Append(@, r)]
    /\ LET l == latLonForZip(r) IN
       IF l.panic
       THEN /\ pc' = [pc EXCEPT ![i] = "panic"]
            /\ UNCHANGED <<loc, calls>>
       ELSE /\ pc' = [pc EXCEPT ![i] = "stations"]
            /\ loc' = [loc EXCEPT ![i] = l.val]
            /\ calls' = [calls EXCEPT ![i] =
                             Append(@, StationsCall(l.val.Latitude, l.val.Longitude))]
    /\ UNCHANGED <<zip, prevZip, served, nearestStation, result, call, ret>>

\* main.go 144-159, 168-171, 186-187: the stations GET returns,
\* findNearestStation extracts the identifier, getLatestObservation issues
\* the observation GET
StationsReturns(i, r) ==
    /\ pc[i] = "stations"
    /\ resps' = [resps EXCEPT ![i] = Append(@, r)]
    /\ LET n == findNearestStation(r) IN
       IF n.panic
       THEN /\ pc' = [pc EXCEPT ![i] = "panic"]
            /\ UNCHANGED <<nearestStation, calls>>
       ELSE /\ pc' = [pc EXCEPT ![i] = "observation"]
            /\ nearestStation' = [nearestStation EXCEPT ![i] = n.val]
            /\ calls' = [calls EXCEPT ![i] = Append(@, ObservationCall(n.val))]
    /\ UNCHANGED <<zip, prevZip, served, loc, result, call, ret>>

\* ZipCode taken from the request instead of the geocoding record
ObservationReturnsInputZip(i, r) ==
    /\ pc[i] = "observation"
    /\ resps' = [resps EXCEPT ![i] = Append(@, r)]
    /\ LET latestObservation == getLatestObservation(nearestStation[i], r) IN
       IF latestObservation.panic
       THEN /\ pc' = [pc EXCEPT ![i] = "panic"]
            /\ UNCHANGED result
       ELSE /\ pc' = [pc EXCEPT ![i] = "done"]
            /\ result' = [result EXCEPT ![i] =
                              [LookupData(loc[i], latestObservation.val)
                                   EXCEPT !.ZipCode = zip[i]]]
    /\ UNCHANGED <<zip, prevZip, served, calls, loc, nearestStation, call, ret>>

\* loc kept in one package-level variable, last written by any goroutine
ObservationReturnsShared(i, r) ==
    /\ pc[i] = "observation"
    /\ resps' = [resps EXCEPT ![i] = Append(@, r)]
    /\ LET latestObservation == getLatestObservation(nearestStation[i], r)
           shared == IF \E j \in Procs \ {i} : pc[j] \in {"stations", "observation", "done"}
                     THEN loc[CHOOSE j \in Procs \ {i} :
                                 pc[j] \in {"stations", "observation", "done"}]
                     ELSE loc[i]
       IN
       IF latestObservation.panic
       THEN /\ pc' = [pc EXCEPT ![i] = "panic"]
            /\ UNCHANGED result
       ELSE /\ pc' = [pc EXCEPT ![i] = "done"]
            /\ result' = [result EXCEPT ![i] = LookupData(shared, latestObservation.val)]
    /\ UNCHANGED <<zip, prevZip, served, calls, loc, nearestStation, call, ret>>

\* main.go 187-205, 171-178, 62: the observation GET returns,
\* getLatestObservation extracts the temperature, getObservationForZip
\* assembles the LookupData and returns it to the handler
ObservationReturns(i, r) ==
    /\ pc[i] = "observation"
    /\ resps' = [resps EXCEPT ![i] = Append(@, r)]
    /\ LET latestObservation == getLatestObservation(nearestStation[i], r) IN
       IF latestObservation.panic
       THEN /\ pc' = [pc EXCEPT ![i] = "panic"]
            /\ UNCHANGED result
       ELSE /\ pc' = [pc EXCEPT ![i] = "done"]
            /\ result' = [result EXCEPT ![i] = LookupData(loc[i], latestObservation.val)]
    /\ UNCHANGED <<zip, prevZip, served, calls, loc, nearestStation, call, ret>>

---------------------------------------------------------------------------
(* Upstream behaviours the lookups are run against *)

WashingtonFields ==
    [city |-> JStr("Washington"), state |-> JStr("DC"), zip |-> JStr("20500"),
     latitude |-> JNum(389), longitude |-> JNum(-770), dst |-> JNum(1)]

AnchorageFields ==
    [city |-> JStr("Anchorage"), state |-> JStr("AK"), zip |-> JStr("99501"),
     latitude |-> JNum(612), longitude |-> JNum(-1499)]

RecordOf(fields) == JObj([fields |-> JObj(fields), recordid |-> JStr("r")])

GeoBody(recs) == Body(JObj([nhits |-> JNum(Len(recs)), records |-> JArr(recs)]))

\* results of the geocoding GET
GeoResponses ==
    { NetErr, BadJSON,
      Body(JObj([nhits |-> JNum(0)])),
      GeoBody(<<>>),
      GeoBody(<<RecordOf(WashingtonFields)>>),
      GeoBody(<<RecordOf(AnchorageFields), RecordOf(WashingtonFields)>>),
      GeoBody(<<RecordOf([city |-> JStr("Juneau"), longitude |-> JNum(-1344)])>>),
      GeoBody(<<RecordOf([city |-> JStr("Juneau"), latitude |-> JStr("58.3")])>>) }

\* "/KDCA", "/PANC", "KD", "KDC\u00e9", "\u00e9\u00e9" as code points
UrlKDCA == <<47, 75, 68, 67, 65>>

UrlPANC == <<47, 80, 65, 78, 67>>

UrlShort == <<75, 68>>

UrlAccent == <<75, 68, 67, 233>>

UrlTwoAccents == <<233, 233>>

StationsBody(list) == Body(JObj([observationStations |-> JArr(list)]))

\* results of the stations GET
StationResponses ==
    { NetErr, BadJSON,
      Body(EmptyObj),
      StationsBody(<<>>),
      StationsBody(<<JStr(UrlKDCA)>>),
      StationsBody(<<JStr(UrlPANC), JStr(UrlKDCA)>>),
      StationsBody(<<JStr(UrlShort)>>),
      StationsBody(<<JStr(UrlAccent)>>),
      StationsBody(<<JStr(UrlTwoAccents)>>),
      StationsBody(<<JNull>>) }

ObservationBody(value) ==
    Body(JObj([properties |-> JObj([temperature |-> JObj([value |-> value])])]))

\* results of the observation GET
ObservationResponses ==
    { NetErr, BadJSON,
      Body(EmptyObj),
      Body(JObj([properties |-> JObj([temperature |-> EmptyObj])])),
      Body(JObj([properties |-> JStr("p")])),
      ObservationBody(JNum(211)),
      ObservationBody(JNum(-50)),
      ObservationBody(JNull) }

\* the smaller choice used when several lookups run at once
ConcZips == {"20500"}

ConcGeoResponses ==
    { GeoBody(<<>>),
      GeoBody(<<RecordOf(WashingtonFields)>>),
      GeoBody(<<RecordOf(AnchorageFields)>>) }

ConcStationResponses ==
    { StationsBody(<<JStr(UrlShort)>>), StationsBody(<<JStr(UrlKDCA)>>),
      StationsBody(<<JStr(UrlPANC)>>) }

ConcObservationResponses ==
    { NetErr, ObservationBody(JNum(211)), ObservationBody(JNum(-50)) }

---------------------------------------------------------------------------
(* One extractor invoked on its own *)

NoCall == [fn |-> "none", station |-> <<>>, r |-> NetErr]

\* values a key of "fields" may carry, or Absent
FieldValues == {Absent, JStr("Washington"), JStr("DC"), JNum(389), JNum(-770)}

FieldsObjects == { ObjOf(c) : c \in [LocKeys -> FieldValues] }

\* values of every dynamic type but map; s is a string
NotObjects(s) == {JNull, JStr(s), JNum(1), JBool(TRUE), JArr(<<>>)}

\* values of every dynamic type but slice; s is a string
NotArrays(s) == {JNull, JStr(s), JNum(1), JBool(TRUE), EmptyObj}

GeoInputs ==
    {NetErr, BadJSON}
    \cup { Body(j) : j \in NotObjects("x") }
    \cup { Body(EmptyObj), Body(JObj([nhits |-> JNum(0)])), GeoBody(<<>>) }
    \cup { Body(JObj([records |-> j])) : j \in NotArrays("x") }
    \cup { GeoBody(<<j>>) : j \in NotObjects("x") }
    \cup { GeoBody(<<EmptyObj>>), GeoBody(<<JObj([recordid |-> JStr("r")])>>) }
    \cup { GeoBody(<<JObj([fields |-> j])>>) : j \in NotObjects("x") }
    \cup { GeoBody(<<JObj([fields |-> f])>>) : f \in FieldsObjects }
    \cup { GeoBody(<<JObj([fields |-> ObjOf([c EXCEPT !.dst = JStr("Y")])])>>) :
             c \in [LocKeys \cup {"dst"} -> {Absent, JStr("DC"), JNum(389)}] }
    \cup { GeoBody(<<RecordOf(AnchorageFields), j>>) : j \in {JNull, RecordOf(WashingtonFields)} }

CodePoints == {65, 75, 233}

UrlStrings == UNION { [1 .. n -> CodePoints] : n \in 0 .. MaxUrlLen }

StationInputs ==
    {NetErr, BadJSON}
    \cup { Body(j) : j \in NotObjects(UrlShort) }
    \cup { Body(EmptyObj), Body(JObj([features |-> JArr(<<>>)])), StationsBody(<<>>) }
    \cup { Body(JObj([observationStations |-> j])) : j \in NotArrays(UrlShort) }
    \cup { StationsBody(<<j>>) : j \in {JNull, JNum(1), JBool(TRUE), EmptyObj, JArr(<<>>)} }
    \cup { StationsBody(<<JStr(u)>>) : u \in UrlStrings }
    \cup { StationsBody(<<JStr(u), j>>) :
             u \in {UrlKDCA, UrlShort, UrlAccent}, j \in {JNull, JStr(UrlPANC), JStr(UrlShort)} }

Temperatures == {211, -50, 0}

ObservationInputs ==
    {NetErr, BadJSON}
    \cup { Body(j) : j \in NotObjects("x") }
    \cup { Body(EmptyObj), Body(JObj([id |-> JStr("x")])) }
    \cup { Body(JObj([properties |-> j])) : j \in NotObjects("x") }
    \cup { Body(JObj([properties |-> EmptyObj])),
           Body(JObj([properties |-> JObj([dewpoint |-> JObj([value |-> JNum(7)])])])) }
    \cup { Body(JObj([properties |-> JObj([temperature |-> j])])) : j \in NotObjects("x") }
    \cup { Body(JObj([properties |-> JObj([temperature |-> EmptyObj])])),
           Body(JObj([properties |-> JObj([temperature |-> JObj([unitCode |-> JStr("degC")])])])) }
    \cup { ObservationBody(j) : j \in {JNull, JStr("21.1"), JBool(TRUE), EmptyObj} }
    \cup { ObservationBody(JNum(n)) : n \in Temperatures }

StationIds == {<<>>, <<75, 68, 67, 65>>, <<68, 67, 195, 169>>}

InitExtractor ==
    /\ InitLookups
    /\ ret = <<>>
    /\ call \in [fn : {"latLonForZip"}, station : {<<>>}, r : GeoInputs]
             \cup [fn : {"findNearestStation"}, station : {<<>>}, r : StationInputs]
             \cup [fn : {"getLatestObservation"}, station : StationIds, r : ObservationInputs]

Geocoder ==
    /\ call.fn = "latLonForZip"
    /\ ret = <<>>
    /\ ret' = <<latLonForZip(call.r)>>
    /\ UNCHANGED <<call, lookupVars>>

StationResolver ==
    /\ call.fn = "findNearestStation"
    /\ ret = <<>>
    /\ ret' = <<findNearestStation(call.r)>>
    /\ UNCHANGED <<call, lookupVars>>

ObservationFetcher ==
    /\ call.fn = "getLatestObservation"
    /\ ret = <<>>
    /\ ret' = <<getLatestObservation(call.station, call.r)>>
    /\ UNCHANGED <<call, lookupVars>>

---------------------------------------------------------------------------
(* Specifications *)

Init == InitLookups /\ call = NoCall /\ ret = <<>>

\* one handler goroutine, taking requests one after the other
Next ==
    \/ \E z \in Zips : NewRequest(1, z)
    \/ \E r \in GeoResponses : GeocodeReturns(1, r)
    \/ \E r \in StationResponses : StationsReturns(1, r)
    \/ \E r \in ObservationResponses : ObservationReturns(1, r)

Spec == Init /\ [][Next]_vars

\* net/http runs each request's handler on a goroutine of its own
NextConc ==
    \E i \in Procs :
        \/ \E z \in ConcZips : NewRequest(i, z)
        \/ \E r \in ConcGeoResponses : GeocodeReturns(i, r)
        \/ \E r \in ConcStationResponses : StationsReturns(i, r)
        \/ \E r \in ConcObservationResponses : ObservationReturns(i, r)

SpecConc == Init /\ [][NextConc]_vars

NextExtractor == Geocoder \/ StationResolver \/ ObservationFetcher

SpecExtractor == InitExtractor /\ [][NextExtractor]_vars

---------------------------------------------------------------------------
(* Reading a JSON document by path, for the statements below *)

IsObj(j) == j.t = "obj"

\* a transport result that decoded to a JSON mapping
IsMapping(r) == r.kind = "json" /\ IsObj(r.body)

\* records is an array with an element 0 that has a "fields" mapping
HasFields(r) ==
    /\ IsMapping(r)
    /\ Has(r.body, "records")
    /\ r.body.v["records"].t = "arr"
    /\ Len(r.body.v["records"].v) > 0
    /\ IsObj(r.body.v["records"].v[1])
    /\ Has(r.body.v["records"].v[1], "fields")
    /\ IsObj(r.body.v["records"].v[1].v["fields"])

FieldsIn(r) == r.body.v["records"].v[1].v["fields"].v

\* "records" is present and is an array with no element
EmptyRecords(r) ==
    /\ IsMapping(r)
    /\ Has(r.body, "records")
    /\ r.body.v["records"].t = "arr"
    /\ Len(r.body.v["records"].v) = 0

\* observationStations is an array with an element 0
HasStationZero(r) ==
    /\ IsMapping(r)
    /\ Has(r.body, "observationStations")
    /\ r.body.v["observationStations"].t = "arr"
    /\ Len(r.body.v["observationStations"].v) > 0

StationZero(r) == r.body.v["observationStations"].v[1]

\* the last n elements of a sequence of at least n
LastN(q, n) == [k \in 1 .. n |-> q[Len(q) - n + k]]

\* properties.temperature.value is there, whatever its type
HasValue(r) ==
    /\ IsMapping(r)
    /\ Has(r.body, "properties")
    /\ IsObj(r.body.v["properties"])
    /\ Has(r.body.v["properties"], "temperature")
    /\ IsObj(r.body.v["properties"].v["temperature"])
    /\ Has(r.body.v["properties"].v["temperature"], "value")

ValueIn(r) == r.body.v["properties"].v["temperature"].v["value"]

\* a level of properties.temperature.value is absent, the ones above it mappings
ValueAbsent(r) ==
    /\ IsMapping(r)
    /\ \/ ~Has(r.body, "properties")
       \/ /\ IsObj(r.body.v["properties"])
          /\ \/ ~Has(r.body.v["properties"], "temperature")
             \/ /\ IsObj(r.body.v["properties"].v["temperature"])
                /\ ~Has(r.body.v["properties"].v["temperature"], "value")

\* a level of properties.temperature.value is present with an unexpected type
ValueMistyped(r) ==
    /\ IsMapping(r)
    /\ Has(r.body, "properties")
    /\ \/ ~IsObj(r.body.v["properties"])
       \/ /\ Has(r.body.v["properties"], "temperature")
          /\ \/ ~IsObj(r.body.v["properties"].v["temperature"])
             \/ /\ Has(r.body.v["properties"].v["temperature"], "value")
                /\ ValueIn(r).t # "num"

\* the geocoding response carries all five fields with their types
WellFormedGeo(r) ==
    /\ HasFields(r)
    /\ \A k \in LocKeys : k \in DOMAIN FieldsIn(r) /\ FieldsIn(r)[k].t = LocType(k)

\* the observation response carries a numeric properties.temperature.value
WellFormedObservation(r) == HasValue(r) /\ ValueIn(r).t = "num"

\* element 0 of observationStations is a string of at least n code points
StationZeroChars(r, n) ==
    HasStationZero(r) /\ StationZero(r).t = "str" /\ Len(StationZero(r).v) >= n

\* element 0 of observationStations is a string of at least n bytes
StationZeroBytes(r, n) ==
    HasStationZero(r) /\ StationZero(r).t = "str" /\ Len(GoString(StationZero(r).v)) >= n

\* a lookup that has had all three upstream results
Finished(i) == pc[i] \in {"done", "panic"} /\ Len(resps[i]) = 3

\* the LookupData the three documents spell out, the station given
Spelled(i, station) ==
    [City        |-> FieldsIn(resps[i][1])["city"].v,
     State       |-> FieldsIn(resps[i][1])["state"].v,
     ZipCode     |-> FieldsIn(resps[i][1])["zip"].v,
     Temperature |-> ValueIn(resps[i][3]).v,
     Station     |-> station]

---------------------------------------------------------------------------
(* Orchestrator, one lookup at a time (Spec) *)

\* C1, as stated: when the three responses are well formed, element 0 of
\* observationStations having at least 4 characters, the lookup returns the
\* city, state and zip of records[0].fields, the temperature value and the
\* trailing 4 characters of element 0.
C1_TrailingCharacters ==
    \A i \in Procs :
        ( /\ Finished(i)
          /\ WellFormedGeo(resps[i][1])
          /\ StationZeroChars(resps[i][2], 4)
          /\ WellFormedObservation(resps[i][3]) )
        => /\ pc[i] = "done"
           /\ result[i] = Spelled(i, GoString(LastN(StationZero(resps[i][2]).v, 4)))

\* C1, amended: when the responses had so far are well formed, element 0 of
\* observationStations having at least 4 bytes, the lookup has not
\* panicked, and after the third it returns the city, state and zip of
\* records[0].fields, the temperature value and the trailing 4 bytes of
\* element 0.
C1_WellFormedLookup ==
    \A i \in Procs :
        LET n == Len(resps[i]) IN
        ( /\ n >= 1
          /\ WellFormedGeo(resps[i][1])
          /\ n >= 2 => StationZeroBytes(resps[i][2], 4)
          /\ n >= 3 => WellFormedObservation(resps[i][3]) )
        => /\ pc[i] # "panic"
           /\ n = 3 =>
                 /\ pc[i] = "done"
                 /\ result[i] = Spelled(i, LastN(GoString(StationZero(resps[i][2]).v), 4))

\* the 20500 / Washington / DC / KDCA / 21.1 lookup, asked for under another zip
C1_Witness ==
    /\ pc[1] = "done"
    /\ zip[1] = "99501"
    /\ WellFormedGeo(resps[1][1])
    /\ StationZeroBytes(resps[1][2], 4)
    /\ WellFormedObservation(resps[1][3])
    /\ result[1] = [City |-> "Washington", State |-> "DC", ZipCode |-> "20500",
                    Temperature |-> 211, Station |-> <<75, 68, 67, 65>>]

\* C2, as stated: a lookup that was handed the no-data sentinel (transport or
\* decode failure) at any stage does not crash.
C2_NoDataIsNotACrash ==
    \A i \in Procs :
        (\E k \in 1 .. Len(resps[i]) : resps[i][k].kind # "json") => pc[i] # "panic"

\* C3: once the geocoding response has "records" present but empty, the lookup
\* has ended in a panic, has issued no call after the geocoding one (so no
\* stations call with 0,0) and has returned no LookupData.
C3_EmptyRecordsIsAnError ==
    \A i \in Procs :
        (Len(resps[i]) >= 1 /\ EmptyRecords(resps[i][1]))
        => /\ pc[i] = "panic"
           /\ calls[i] = <<GeocodeCall(zip[i])>>
           /\ Len(resps[i]) = 1
           /\ result[i] = ZeroLookupData

C3_Witness ==
    /\ pc[1] = "panic"
    /\ resps[1] = <<GeoBody(<<>>)>>

\* C7: a lookup has at most one upstream call outstanding, each call issued
\* after the one before it returned; a lookup that returned has issued exactly
\* the geocoding call for its zip, then the stations call with the
\* coordinates the Geocoder returned, then the observation call with the
\* identifier the Station Resolver returned, whatever those were and whether
\* or not the same zip was looked up just before.
C7_ThreeCallsInOrder ==
    \A i \in Procs :
        /\ Len(calls[i]) =
               Len(resps[i]) + (IF pc[i] \in {"geocode", "stations", "observation"} THEN 1 ELSE 0)
        /\ pc[i] = "done" =>
              /\ Len(calls[i]) = 3
              /\ Len(resps[i]) = 3
              /\ LET l == latLonForZip(resps[i][1]).val IN
                 calls[i] = << GeocodeCall(zip[i]),
                               StationsCall(l.Latitude, l.Longitude),
                               ObservationCall(findNearestStation(resps[i][2]).val) >>

\* a repeated zip, an all-zero Location and an empty station identifier
C7_Witness ==
    /\ pc[1] = "done"
    /\ served[1] = 2
    /\ prevZip[1] = zip[1]
    /\ ~Has(resps[1][1].body, "records")
    /\ calls[1][2] = StationsCall(0, 0)
    /\ calls[1][3] = ObservationCall(<<>>)

---------------------------------------------------------------------------
(* Lookups running at once (SpecConc) *)

\* where a lookup run by itself stands after the upstream results rs
Alone(rs) ==
    LET start == [pc |-> "geocode", loc |-> ZeroLocation, nearestStation |-> <<>>,
                  result |-> ZeroLookupData]
    IN
    IF Len(rs) = 0 THEN start
    ELSE LET l == latLonForZip(rs[1]) IN
    IF l.panic THEN [start EXCEPT !.pc = "panic"]
    ELSE IF Len(rs) = 1 THEN [start EXCEPT !.pc = "stations", !.loc = l.val]
    ELSE LET n == findNearestStation(rs[2]) IN
    IF n.panic THEN [start EXCEPT !.pc = "panic", !.loc = l.val]
    ELSE IF Len(rs) = 2
    THEN [start EXCEPT !.pc = "observation", !.loc = l.val, !.nearestStation = n.val]
    ELSE LET whole == getObservationForZip(rs[1], rs[2], rs[3]) IN
    IF whole.panic
    THEN [start EXCEPT !.pc = "panic", !.loc = l.val, !.nearestStation = n.val]
    ELSE [pc |-> "done", loc |-> l.val, nearestStation |-> n.val, result |-> whole.val]

\* C8: in every interleaving, where each lookup stands, its locals and the
\* LookupData it returns (or its panic) are what the same upstream results
\* give a lookup run alone.
C8_LookupsAreIndependent ==
    \A i \in Procs :
        pc[i] # "idle" =>
            [pc |-> pc[i], loc |-> loc[i], nearestStation |-> nearestStation[i],
             result |-> result[i]] = Alone(resps[i])

\* two lookups in flight together, on different locations and stations, one returned
C8_Witness ==
    /\ served[1] = 1 /\ served[2] = 1
    /\ pc[1] = "done" /\ pc[2] = "observation"
    /\ loc[1] # loc[2]
    /\ nearestStation[1] # nearestStation[2]
    /\ result[1].City = "Anchorage"

---------------------------------------------------------------------------
(* The extractors, each on its own (SpecExtractor) *)

Returned(fn) == call.fn = fn /\ ret # <<>>

\* C4: for a stations response that is a mapping with observationStations
\* absent or an empty sequence, findNearestStation returns "" without a panic.
C4_NoStationsGivesEmpty ==
    ( /\ Returned("findNearestStation")
      /\ IsMapping(call.r)
      /\ \/ ~Has(call.r.body, "observationStations")
         \/ call.r.body.v["observationStations"] = JArr(<<>>) )
    => ret[1] = Ok(<<>>)

C4_Witness ==
    /\ Returned("findNearestStation")
    /\ call.r = StationsBody(<<>>)
    /\ ret[1] = Ok(<<>>)

\* C5: for any station s and an observation response that is a mapping with
\* properties, temperature or value absent, getLatestObservation returns
\* Temperature 0 and Station s.
C5_AbsentValueGivesZero ==
    (Returned("getLatestObservation") /\ ValueAbsent(call.r))
    => ret[1] = Ok([Station |-> call.station, Temperature |-> 0])

C5_Witness ==
    /\ Returned("getLatestObservation")
    /\ call.station = <<75, 68, 67, 65>>
    /\ ValueAbsent(call.r)
    /\ Has(call.r.body, "properties")
    /\ ret[1] = Ok([Station |-> <<75, 68, 67, 65>>, Temperature |-> 0])

\* what the claim gives a Location field for key k of the fields f
Claimed(f, k, zero) == IF k \in DOMAIN f THEN f[k].v ELSE zero

\* C6: for a geocoding response whose records[0] has a "fields" mapping,
\* latLonForZip panics if one of the five keys is present with the wrong
\* type, and otherwise returns the Location whose every field is the value
\* under its key, or the zero value when the key is absent; no other key
\* counts.
C6_FieldsBecomeLocation ==
    (Returned("latLonForZip") /\ HasFields(call.r))
    => LET f == FieldsIn(call.r) IN
       IF \E k \in LocKeys : k \in DOMAIN f /\ f[k].t # LocType(k)
       THEN ret[1].panic
       ELSE ret[1] = Ok([City      |-> Claimed(f, "city", ""),
                         State     |-> Claimed(f, "state", ""),
                         Zip       |-> Claimed(f, "zip", ""),
                         Latitude  |-> Claimed(f, "latitude", 0),
                         Longitude |-> Claimed(f, "longitude", 0)])

\* an unknown key present, city absent, the other four set
C6_Witness ==
    /\ Returned("latLonForZip")
    /\ HasFields(call.r)
    /\ DOMAIN FieldsIn(call.r) = {"dst", "state", "zip", "latitude", "longitude"}
    /\ ret[1] = Ok([City |-> "", State |-> "DC", Zip |-> "DC",
                    Latitude |-> 389, Longitude |-> 389])

\* C9: for an observation response in which properties or temperature is
\* present but not a mapping, or value is present but not a number (null
\* included), getLatestObservation panics.
C9_MistypedLevelPanics ==
    (Returned("getLatestObservation") /\ ValueMistyped(call.r)) => ret[1].panic

C9_Witness ==
    /\ Returned("getLatestObservation")
    /\ call.r = ObservationBody(JNull)
    /\ ret[1].panic

\* C10, as stated: a result is "" or the trailing 4 characters of element 0,
\* and an element 0 that is not a string, or is one of fewer than 4
\* characters, makes the call panic.
C10_TrailingCharacters ==
    Returned("findNearestStation") =>
        /\ ~ret[1].panic =>
              \/ ret[1].val = <<>>
              \/ /\ StationZeroChars(call.r, 4)
                 /\ ret[1].val = GoString(LastN(StationZero(call.r).v, 4))
        /\ (HasStationZero(call.r) /\ ~StationZeroChars(call.r, 4)) => ret[1].panic

\* C10, amended: a result is "" or the trailing 4 bytes of element 0 (so it
\* is 0 or 4 bytes long); an element 0 that is not a string, or is one of
\* fewer than 4 bytes, makes the call panic; with an element 0 the outcome is
\* settled by element 0 alone.
C10_TrailingBytes ==
    Returned("findNearestStation") =>
        /\ ~ret[1].panic =>
              /\ Len(ret[1].val) \in {0, 4}
              /\ \/ ret[1].val = <<>> /\ ~HasStationZero(call.r)
                 \/ /\ StationZeroBytes(call.r, 4)
                    /\ ret[1].val = LastN(GoString(StationZero(call.r).v), 4)
        /\ (HasStationZero(call.r) /\ ~StationZeroBytes(call.r, 4)) => ret[1].panic
        /\ (HasStationZero(call.r) /\ StationZeroBytes(call.r, 4)) => ~ret[1].panic

\* two characters, four bytes: returned whole
C10_Witness ==
    /\ Returned("findNearestStation")
    /\ call.r = StationsBody(<<JStr(UrlTwoAccents)>>)
    /\ ret[1] = Ok(<<195, 169, 195, 169>>)

====
